---- MODULE Spec2Model ----
(***************************************************************************)
(* A model of backend/main.py of cmu_landmos_ai: the FastAPI relay that    *)
(* sends GNSS charts and station time series to an Ollama model service.   *)
(*                                                                         *)
(* Text is modelled as a sequence of one-character strings, so that        *)
(* str.startswith, slicing, len, split and the `in` substring test are     *)
(* computed as Python computes them.  Values the code only stores, passes  *)
(* on or compares for equality (mode keys, language, dates, uploaded       *)
(* bytes, timestamps) are opaque TLA+ strings.                             *)
(***************************************************************************)
EXTENDS Integers, Sequences, FiniteSets, TLC

VARIABLES req, files, served, avail, summ

vars == <<req, files, served, avail, summ>>

(***************************************************************************)
(* Bounds of the model.                                                    *)
(***************************************************************************)
MaxNameLen == 2
MaxListing == 2

(***************************************************************************)
(* Text helpers (Python str operations).                                   *)
(***************************************************************************)
\* s.startswith(p)
StartsWith(s, p) ==
  /\ Len(p) <= Len(s)
  /\ SubSeq(s, 1, Len(p)) = p

\* s[:n]
Take(s, n) ==
  IF Len(s) <= n THEN s ELSE SubSeq(s, 1, n)

\* sub in s  (substring test of two str)
Contains(sub, s) ==
  \E i \in 0..(Len(s) - Len(sub)) : SubSeq(s, i + 1, i + Len(sub)) = sub

\* s.split(":")[0]
SplitFirst(s) ==
  LET colons == {i \in 1..Len(s) : s[i] = ":"}
  IN  IF colons = {} THEN s
      ELSE SubSeq(s, 1, (CHOOSE i \in colons : \A j \in colons : i <= j) - 1)

(***************************************************************************)
(* String literals of the source.                                          *)
(***************************************************************************)
ErrorMarker ==
  <<"E","r","r","o","r",":">>
ErrorPrefix ==
  <<"E","r","r","o","r",":"," ">>
Ellipsis ==
  <<".",".",".">>
NoResponseText ==
  <<"N","o"," ","r","e","s","p","o","n","s","e"," ","g","e","n","e","r","a","t","e","d",".">>
TimeoutText ==
  <<"E","r","r","o","r",":"," ","R","e","q","u","e","s","t"," ","t","o"," ","O","l","l","a","m","a"," ","t","i","m","e","d"," ","o","u","t","."," ","T","h","e"," ","m","o","d","e","l"," ","m","a","y"," ","s","t","i","l","l"," ","b","e"," ","l","o","a","d","i","n","g",".">>
ConnectText ==
  <<"E","r","r","o","r",":"," ","C","a","n","n","o","t"," ","c","o","n","n","e","c","t"," ","t","o"," ","O","l","l","a","m","a","."," ","I","s"," ","t","h","e"," ","O","l","l","a","m","a"," ","s","e","r","v","i","c","e"," ","r","u","n","n","i","n","g","?">>
StationPrefix ==
  <<"S","t","a","t","i","o","n",":"," ">>
NoDataText ==
  <<"N","o"," ","d","a","t","a"," ","r","e","c","o","r","d","s"," ","f","o","u","n","d",".">>
StatusWord ==
  <<"s","t","a","t","u","s"," ">>
Moondream ==
  <<"m","o","o","n","d","r","e","a","m">>
Llava7b ==
  <<"l","l","a","v","a",":","7","b">>
Llama1b ==
  <<"l","l","a","m","a","3",".","2",":","1","b">>
Llama3b ==
  <<"l","l","a","m","a","3",".","2",":","3","b">>
MoondreamLatest ==
  <<"m","o","o","n","d","r","e","a","m",":","l","a","t","e","s","t">>

(***************************************************************************)
(* check_ollama_model: the model availability check.                       *)
(* resp is the answer of GET /api/tags: kind "ok" (status 200) with the    *)
(* names of the listing in resp.models, kind "non200", or kind "exc" (any  *)
(* exception: transport failure, bad JSON).  The code builds the list      *)
(* `models` and only tests membership and any() over it, so the listing    *)
(* is a set of names.                                                      *)
(***************************************************************************)
ExactOnlyForBareName(model_name, resp) ==
  /\ resp.kind = "ok"
  /\ \/ model_name \in resp.models
     \/ /\ \E i \in 1..Len(model_name) : model_name[i] = ":"
        /\ \E m \in resp.models : Contains(SplitFirst(model_name), m)

check_ollama_model(model_name, resp) ==
  /\ resp.kind = "ok"
  /\ \/ model_name \in resp.models
     \/ \E m \in resp.models : Contains(SplitFirst(model_name), m)

(***************************************************************************)
(* The availability check on its own: every model name and every answer    *)
(* of the tag listing within the bounds.                                   *)
(***************************************************************************)
Alphabet == {"a", "b", ":"}

\* model names and listing entries are not empty
Names == UNION {[1..k -> Alphabet] : k \in 1..MaxNameLen}

\* the sets of at most n names
RECURSIVE ListingsUpTo(_)
ListingsUpTo(n) ==
  IF n = 0 THEN {{}}
  ELSE LET smaller == ListingsUpTo(n - 1)
       IN  smaller \cup {L \cup {x} : L \in smaller, x \in Names}

Listings == ListingsUpTo(MaxListing)

TagsAnswers ==
  {[kind |-> "ok", models |-> L] : L \in Listings}
    \cup {[kind |-> "non200", models |-> {}], [kind |-> "exc", models |-> {}]}

IdleAvail ==
  [name |-> <<>>, resp |-> [kind |-> "exc", models |-> {}], done |-> TRUE, result |-> FALSE]

AvailInit ==
  avail \in [name : Names, resp : TagsAnswers, done : {FALSE}, result : {FALSE}]

AvailCheck ==
  /\ ~avail.done
  /\ avail' = [avail EXCEPT !.done = TRUE,
                            !.result = check_ollama_model(avail.name, avail.resp)]
  /\ UNCHANGED <<req, files, served, summ>>

(***************************************************************************)
(* Station data (JSON) as the summarizer sees it.                          *)
(*                                                                         *)
(* A JSON scalar is [t, v]: t = "num" a number v, "numstr" a string that   *)
(* float() parses to v, "str" any other non-empty string (v names it),     *)
(* "null" None, "bool" True (v = 1) or False (v = 0), v being what float() *)
(* makes of it.  Numbers are integers (measurements in fixed units), so    *)
(* min, max, sum and differences are exact.                                *)
(* A list element is [isdict, f]: a record (dict) with fields f, or a      *)
(* JSON scalar that is no dict (isdict = FALSE).                           *)
(* A payload is [shape, items, obj]: a plain list ("list", items), a       *)
(* wrapper object ("dict", obj maps its keys to [t, items] with t "list"   *)
(* or "null"), or any other JSON value ("scalar").                         *)
(***************************************************************************)
JNum(n) == [t |-> "num", v |-> n]
JNumStr(n) == [t |-> "numstr", v |-> n]
JStr(n) == [t |-> "str", v |-> n]
JNull == [t |-> "null", v |-> 0]
JBool(b) == [t |-> "bool", v |-> IF b THEN 1 ELSE 0]

NoFields == [k \in {} |-> JNull]
DictItem(f) == [isdict |-> TRUE, f |-> f]
ScalarItem == [isdict |-> FALSE, f |-> NoFields]

NoObj == [k \in {} |-> [t |-> "null", items |-> <<>>]]
ListPayload(items) == [shape |-> "list", items |-> items, obj |-> NoObj]
DictPayload(obj) == [shape |-> "dict", items |-> <<>>, obj |-> obj]
ScalarPayload == [shape |-> "scalar", items |-> <<>>, obj |-> NoObj]
ListValue(items) == [t |-> "list", items |-> items]
NullValue == [t |-> "null", items |-> <<>>]

(***************************************************************************)
(* Output text of the summarizer: the lines joined by "\n", each line a    *)
(* sequence of pieces [k, s, t, v, d]: literal text s ("lit"), str() of a  *)
(* JSON scalar [t, v] ("raw"), an integer v ("int"), or the number v / d   *)
(* formatted with :.4f ("f4") or :+.4f ("f4s").                            *)
(***************************************************************************)
Lit(s) == [k |-> "lit", s |-> s, t |-> "num", v |-> 0, d |-> 1]
Raw(val) == [k |-> "raw", s |-> <<>>, t |-> val.t, v |-> val.v, d |-> 1]
IntPiece(n) == [k |-> "int", s |-> <<>>, t |-> "num", v |-> n, d |-> 1]
F4(n, d) == [k |-> "f4", s |-> <<>>, t |-> "num", v |-> n, d |-> d]
F4Signed(n, d) == [k |-> "f4s", s |-> <<>>, t |-> "num", v |-> n, d |-> d]

TotalPointsText ==
  <<"T","o","t","a","l"," ","d","a","t","a"," ","p","o","i","n","t","s",":"," ">>
TimeRangeText ==
  <<"T","i","m","e"," ","r","a","n","g","e",":"," ">>
ToText ==
  <<" ","t","o"," ">>
UnknownTsText ==
  <<"?">>
LocationLatText ==
  <<"L","o","c","a","t","i","o","n",":"," ","l","a","t","=">>
LngText ==
  <<","," ","l","n","g","=">>
DisplacementHeader ==
  <<"\n","-","-","-"," ","D","i","s","p","l","a","c","e","m","e","n","t"," ","S","t","a","t","i","s","t","i","c","s"," ","-","-","-">>
QualityHeader ==
  <<"\n","-","-","-"," ","D","a","t","a"," ","Q","u","a","l","i","t","y"," ","-","-","-">>
FirstRowsHeader ==
  <<"\n","F","i","r","s","t"," ","3"," ","r","e","c","o","r","d","s"," ","(","t","i","m","e","s","t","a","m","p",","," ","d","e",","," ","d","n",","," ","d","h",")",":">>
LastRowsHeader ==
  <<"L","a","s","t"," ","3"," ","r","e","c","o","r","d","s",":">>
MinText ==
  <<":"," ","m","i","n","=">>
MaxText ==
  <<","," ","m","a","x","=">>
MeanText ==
  <<","," ","m","e","a","n","=">>
TotalChangeText ==
  <<","," ","t","o","t","a","l","_","c","h","a","n","g","e","=">>
RowIndent ==
  <<" "," ">>
RowSep ==
  <<","," ">>
EqualsText ==
  <<"=">>
LANDMOS_FIELD_LABELS ==
     "de" :> <<"E","a","s","t"," ","d","i","s","p","l","a","c","e","m","e","n","t"," ","(","m",")">>
  @@ "dn" :> <<"N","o","r","t","h"," ","d","i","s","p","l","a","c","e","m","e","n","t"," ","(","m",")">>
  @@ "dh" :> <<"H","e","i","g","h","t"," ","d","i","s","p","l","a","c","e","m","e","n","t"," ","(","m",")">>
  @@ "sde" :> <<"E","a","s","t"," ","d","i","s","p","l","a","c","e","m","e","n","t"," ","S",".","D","."," ","(","m",")">>
  @@ "sdn" :> <<"N","o","r","t","h"," ","d","i","s","p","l","a","c","e","m","e","n","t"," ","S",".","D","."," ","(","m",")">>
  @@ "sdh" :> <<"H","e","i","g","h","t"," ","d","i","s","p","l","a","c","e","m","e","n","t"," ","S",".","D","."," ","(","m",")">>
  @@ "pdop" :> <<"P","D","O","P">>
  @@ "no_satellite" :> <<"S","a","t","e","l","l","i","t","e"," ","c","o","u","n","t">>
  @@ "lat" :> <<"L","a","t","i","t","u","d","e">>
  @@ "lng" :> <<"L","o","n","g","i","t","u","d","e">>
KeyText ==
     "timestamp" :> <<"t","i","m","e","s","t","a","m","p">>
  @@ "de" :> <<"d","e">>
  @@ "dn" :> <<"d","n">>
  @@ "dh" :> <<"d","h">>
  @@ "sde" :> <<"s","d","e">>
  @@ "sdn" :> <<"s","d","n">>
  @@ "sdh" :> <<"s","d","h">>
  @@ "pdop" :> <<"p","d","o","p">>
  @@ "no_satellite" :> <<"n","o","_","s","a","t","e","l","l","i","t","e">>
  @@ "lat" :> <<"l","a","t">>
  @@ "lng" :> <<"l","n","g">>

DISPLACEMENT_KEYS == <<"de", "dn", "dh">>
QUALITY_KEYS == <<"sde", "sdn", "sdh", "pdop", "no_satellite">>

\* k in r, for a record r
HasKey(r, k) == r.isdict /\ k \in DOMAIN r.f

\* float(x) succeeds: a number, a string that parses as one, or a bool
\* (float(True) is 1.0); None is a TypeError and any other string a ValueError
Floatable(val) == val.t \in {"num", "numstr", "bool"}

\* Python truthiness of a JSON scalar
Truthy(val) ==
  CASE val.t \in {"num", "bool"} -> val.v # 0
    [] val.t = "null" -> FALSE
    [] OTHER -> TRUE

RECURSIVE SeqSum(_)
SeqSum(s) == IF s = <<>> THEN 0 ELSE Head(s) + SeqSum(Tail(s))

SeqMin(s) == CHOOSE x \in {s[i] : i \in 1..Len(s)} : \A i \in 1..Len(s) : x <= s[i]

SeqMax(s) == CHOOSE x \in {s[i] : i \in 1..Len(s)} : \A i \in 1..Len(s) : x >= s[i]

\* the records the summarizer works on (lines 435-437)
RecordsOf(station_data) ==
  IF station_data.shape = "list" THEN station_data.items
  ELSE LET get(k) == IF k \in DOMAIN station_data.obj /\ station_data.obj[k].t = "list"
                     THEN station_data.obj[k].items
                     ELSE <<>>
       IN  IF get("records") # <<>> THEN get("records")
           ELSE IF get("data") # <<>> THEN get("data")
           ELSE <<>>

\* vals of _stats: float(r[key]) of every record where that succeeds, in order
RECURSIVE StatVals(_, _)
StatVals(records, key) ==
  IF records = <<>> THEN <<>>
  ELSE LET r == Head(records)
           rest == StatVals(Tail(records), key)
       IN  IF HasKey(r, key) /\ Floatable(r.f[key])
           THEN <<r.f[key].v>> \o rest
           ELSE rest

\* _stats(key, label): the line, or <<>> for None
Stats(records, key, label) ==
  LET vals == StatVals(records, key)
  IN  IF vals = <<>> THEN <<>>
      ELSE LET mn == SeqMin(vals)
               mx == SeqMax(vals)
               trend == vals[Len(vals)] - vals[1]
           IN  <<Lit(label), Lit(MinText), F4(mn, 1), Lit(MaxText), F4(mx, 1),
                 Lit(MeanText), F4(SeqSum(vals), Len(vals)),
                 Lit(TotalChangeText), F4Signed(trend, 1)>>

\* the loops of lines 473-477 and 480-484
RECURSIVE StatLines(_, _)
StatLines(records, keys) ==
  IF keys = <<>> THEN <<>>
  ELSE LET stat == Stats(records, Head(keys), LANDMOS_FIELD_LABELS[Head(keys)])
       IN  (IF stat # <<>> THEN <<stat>> ELSE <<>>) \o StatLines(records, Tail(keys))

\* ", ".join(f"{k}={r.get(k, '')}" for k in sample_keys if k in r)
RECURSIVE RowPieces(_, _, _)
RowPieces(r, keys, first) ==
  IF keys = <<>> THEN <<>>
  ELSE LET k == Head(keys)
       IN  IF HasKey(r, k)
           THEN (IF first THEN <<>> ELSE <<Lit(RowSep)>>)
                  \o <<Lit(KeyText[k]), Lit(EqualsText), Raw(r.f[k])>>
                  \o RowPieces(r, Tail(keys), FALSE)
           ELSE RowPieces(r, Tail(keys), first)

SampleRow(r) == <<Lit(RowIndent)>> \o RowPieces(r, <<"timestamp">> \o DISPLACEMENT_KEYS, TRUE)

\* records[:3]
FirstThree(records) == SubSeq(records, 1, IF Len(records) < 3 THEN Len(records) ELSE 3)

\* records[-3:]
LastThree(records) ==
  SubSeq(records, IF Len(records) < 3 THEN 1 ELSE Len(records) - 2, Len(records))

NoDataNotice(stat_code) == <<<<Lit(StationPrefix), Lit(stat_code)>>, <<Lit(NoDataText)>>>>

Returned(lines) == [raised |-> FALSE, lines |-> lines]
Raised == [raised |-> TRUE, lines |-> <<>>]

\* r.get(key, default) as a piece
GetOr(r, key, default) == IF HasKey(r, key) THEN Raw(r.f[key]) ELSE Lit(default)

\* line 439: `not records`
NoRecordsIsNone(records) == FALSE

NoRecords(records) == Len(records) = 0

_summarize_station_data(station_data, stat_code) ==
  IF station_data.shape = "scalar" THEN Raised          \* .get of a non-dict
  ELSE
  LET records == RecordsOf(station_data)
      total == Len(records)
  IN
  IF NoRecords(records) THEN Returned(NoDataNotice(stat_code))
  ELSE IF total = 0 THEN Raised                         \* records[0] of an empty list
  ELSE IF \/ ~records[1].isdict \/ ~records[total].isdict
          \/ \E i \in 1..Len(FirstThree(records)) : ~FirstThree(records)[i].isdict
          \/ total > 6 /\ \E i \in 1..3 : ~LastThree(records)[i].isdict
       THEN Raised                                      \* .get / `in` of a non-dict
  ELSE
  LET first == records[1]
      last == records[total]
      location ==
        IF HasKey(first, "lat") /\ HasKey(first, "lng")
           /\ Truthy(first.f["lat"]) /\ Truthy(first.f["lng"])
        THEN <<<<Lit(LocationLatText), Raw(first.f["lat"]),
                 Lit(LngText), Raw(first.f["lng"])>>>>
        ELSE <<>>
      rows(rs) == [i \in 1..Len(rs) |-> SampleRow(rs[i])]
  IN  Returned(
        <<<<Lit(StationPrefix), Lit(stat_code)>>,
          <<Lit(TotalPointsText), IntPiece(total)>>,
          <<Lit(TimeRangeText), GetOr(first, "timestamp", UnknownTsText),
            Lit(ToText), GetOr(last, "timestamp", UnknownTsText)>>>>
        \o location
        \o <<<<Lit(DisplacementHeader)>>>>
        \o StatLines(records, DISPLACEMENT_KEYS)
        \o <<<<Lit(QualityHeader)>>>>
        \o StatLines(records, QUALITY_KEYS)
        \o <<<<Lit(FirstRowsHeader)>>>>
        \o rows(FirstThree(records))
        \o (IF total > 6
            THEN <<<<Lit(LastRowsHeader)>>>> \o rows(LastThree(records))
            ELSE <<>>))

(***************************************************************************)
(* The summarizer on its own: every payload within the bounds.             *)
(***************************************************************************)
MaxRecords == 2

Absent == [t |-> "absent", v |-> 0]

MkFields(ts, de, dn, lat, lng) ==
  LET all == [timestamp |-> ts, de |-> de, dn |-> dn, lat |-> lat, lng |-> lng]
  IN  [k \in {x \in DOMAIN all : all[x] # Absent} |-> all[k]]

SampleItems ==
  {DictItem(MkFields(ts, de, dn, ll, ll)) :
     ts \in {Absent, JStr(1)},
     de \in {Absent, JNum(-1), JNum(2), JNull, JBool(TRUE)},
     dn \in {JNumStr(1), JStr(3)},
     ll \in {Absent, JNum(18)}}
    \cup {ScalarItem}

ItemLists(n) == UNION {[1..k -> SampleItems] : k \in 0..n}

WrapperValues == {Absent, NullValue} \cup {ListValue(L) : L \in ItemLists(1)}

MkObj(records, data) ==
  LET all == [records |-> records, data |-> data, station |-> NullValue]
  IN  [k \in {x \in DOMAIN all : all[x] # Absent} |-> all[k]]

SamplePayloads ==
  {ListPayload(L) : L \in ItemLists(MaxRecords)}
    \cup {DictPayload(MkObj(r, d)) : r \in WrapperValues, d \in WrapperValues}
    \cup {ScalarPayload}

StatCodes == {<<"A">>, <<"B", "1">>}

IdleSumm == [data |-> ScalarPayload, code |-> <<>>, done |-> TRUE, out |-> Raised]

SummInit ==
  summ \in [data : SamplePayloads, code : StatCodes, done : {FALSE}, out : {Raised}]

Summarize ==
  /\ ~summ.done
  /\ summ' = [summ EXCEPT !.done = TRUE,
                          !.out = _summarize_station_data(summ.data, summ.code)]
  /\ UNCHANGED <<req, files, served, avail>>

(***************************************************************************)
(* Configuration and inputs of the endpoints.                              *)
(***************************************************************************)
TruncLen == 300
ErrorDetailLen == 300
NumReqs == 2
IdSpace == 2

Reqs == 1..NumReqs

\* str(uuid.uuid4())[:8]: eight hex digits of a random uuid
ChartIds == 1..IdSpace

MODEL_MODES ==
  [moondream |-> [vision_model |-> Moondream, text_model |-> Llama1b],
   llava |-> [vision_model |-> Llava7b, text_model |-> Llama3b]]

DEFAULT_MODEL_MODE == "moondream"

\* MODEL_MODES.get(model_mode, MODEL_MODES[DEFAULT_MODEL_MODE])
ResolveMode(model_mode) ==
  IF model_mode \in DOMAIN MODEL_MODES THEN MODEL_MODES[model_mode]
  ELSE MODEL_MODES[DEFAULT_MODEL_MODE]

ModeInputs == {"moondream", "llava", "gpt"}
Languages == {"en", "th"}

ImagePrefix ==
  <<"i","m","a","g","e","/">>
ImagePng ==
  <<"i","m","a","g","e","/","p","n","g">>
TextPlain ==
  <<"t","e","x","t","/","p","l","a","i","n">>
DotPng ==
  <<".","p","n","g">>
ChartPng ==
  <<"c","h","a","r","t",".","p","n","g">>

\* an optional str: None, or the text s
None == [isnone |-> TRUE, s |-> <<>>]
Some(s) == [isnone |-> FALSE, s |-> s]

ContentTypes == {None, Some(<<>>), Some(ImagePng), Some(TextPlain), Some(<<"x">> \o ImagePrefix)}
UploadNames == {None, Some(<<"a">>), Some(<<"a", ".", "j">>), Some(<<".", "j">>)}
Contents == {"bytes1", "bytes2"}

\* Path(name).suffix, for a name without directory part
Suffix(name) ==
  LET dots == {i \in 1..Len(name) : name[i] = "."}
      last == CHOOSE i \in dots : \A j \in dots : j <= i
  IN  IF dots = {} THEN <<>>
      ELSE IF last = 1 \/ last = Len(name) THEN <<>>
      ELSE SubSeq(name, last, Len(name))

\* Path(file.filename or "chart.png").suffix or ".png"
UploadExt(filename) ==
  LET name == IF filename.isnone \/ filename.s = <<>> THEN ChartPng ELSE filename.s
  IN  IF Suffix(name) = <<>> THEN DotPng ELSE Suffix(name)

\* f"chart_{chart_id}{ext}": the stored file's name, by its two variable parts
StoredName(chart_id, ext) == <<chart_id, ext>>

StoredNames == {StoredName(i, UploadExt(n)) : i \in ChartIds, n \in UploadNames}

(***************************************************************************)
(* Answers of the model service.                                           *)
(* /api/pull: "ok" (200), "non200", "exc".                                 *)
(* /api/generate: [kind, haskey, text, status]: "ok" is a 200 whose JSON   *)
(* holds "response" = text (haskey) or no such key; "non200" has status    *)
(* and either a JSON "error" = text (haskey) or the body text; "timeout",  *)
(* "connect"; "exc" any other exception, text its str().                   *)
(***************************************************************************)
ModelListings ==
  {{}, {MoondreamLatest}, {Llava7b, Llama3b}, {MoondreamLatest, Llama1b}, {Llama1b}}

FlowTagsAnswers ==
  {[kind |-> "ok", models |-> L] : L \in ModelListings}
    \cup {[kind |-> "non200", models |-> {}], [kind |-> "exc", models |-> {}]}

PullAnswers == {"ok", "non200", "exc"}

LongText(n) == [i \in 1..n |-> IF i = n THEN "z" ELSE IF i = TruncLen THEN "y" ELSE "x"]

ShortText == <<"o", "k">>
MarkedText == ErrorMarker \o <<"4", "2">>
BlankText == <<" ", "\n">>

ModelTexts ==
  {ShortText, MarkedText} \cup {LongText(n) : n \in {TruncLen, TruncLen + 1}}

GenAnswer(kind, haskey, text, status) ==
  [kind |-> kind, haskey |-> haskey, text |-> text, status |-> status]

GenAnswers ==
  {GenAnswer("ok", TRUE, t, 200) : t \in ModelTexts}
    \cup {GenAnswer("ok", FALSE, <<>>, 200),
          GenAnswer("non200", TRUE, ShortText, 500),
          GenAnswer("non200", FALSE, LongText(TruncLen + 1), 500),
          GenAnswer("non200", FALSE, BlankText, 404),
          GenAnswer("timeout", FALSE, <<>>, 0),
          GenAnswer("connect", FALSE, <<>>, 0),
          GenAnswer("exc", FALSE, ShortText, 0)}

StatusText(status) ==
  CASE status = 404 -> <<"4", "0", "4">>
    [] status = 500 -> <<"5", "0", "0">>
    [] status = 503 -> <<"5", "0", "3">>
    [] OTHER -> <<"?">>

IsSpace(c) == c \in {" ", "\n"}

\* s.strip()
RECURSIVE Strip(_)
Strip(s) ==
  IF s = <<>> THEN s
  ELSE IF IsSpace(Head(s)) THEN Strip(Tail(s))
  ELSE IF IsSpace(s[Len(s)]) THEN Strip(SubSeq(s, 1, Len(s) - 1))
  ELSE s

_parse_ollama_error(resp) ==
  IF resp.haskey THEN resp.text
  ELSE LET text == Strip(resp.text)
       IN  IF text # <<>> THEN Take(text, ErrorDetailLen)
           ELSE StatusWord \o StatusText(resp.status)

query_ollama_vision(resp) ==
  CASE resp.kind = "ok" -> IF resp.haskey THEN resp.text ELSE NoResponseText
    [] resp.kind = "non200" -> ErrorPrefix \o _parse_ollama_error(resp)
    [] resp.kind = "timeout" -> TimeoutText
    [] resp.kind = "connect" -> ConnectText
    [] OTHER -> ErrorPrefix \o resp.text

query_ollama_text(resp) ==
  CASE resp.kind = "ok" -> IF resp.haskey THEN resp.text ELSE NoResponseText
    [] resp.kind = "non200" -> ErrorPrefix \o _parse_ollama_error(resp)
    [] resp.kind = "timeout" -> TimeoutText
    [] resp.kind = "connect" -> ConnectText
    [] OTHER -> ErrorPrefix \o resp.text

(***************************************************************************)
(* Answers of the station API (GET stations/data_by_stat_code):            *)
(* [kind, status, json]: "ok" a 200 with JSON body json, "non200" with     *)
(* status, "connect", "timeout", "exc" any other exception.                *)
(***************************************************************************)
StationAnswer(kind, status, json) == [kind |-> kind, status |-> status, json |-> json]

RecA == DictItem(MkFields(JStr(1), JNum(-1), JNumStr(1), JNum(18), JNum(98)))
RecB == DictItem(MkFields(JStr(2), JNum(2), JStr(3), Absent, Absent))

FlowPayloads ==
  {ListPayload(<<>>), ListPayload(<<RecA, RecB>>), ListPayload(<<ScalarItem>>),
   DictPayload(MkObj(ListValue(<<RecA>>), Absent)),
   DictPayload(MkObj(Absent, ListValue(<<RecB, RecA>>))),
   DictPayload(MkObj(Absent, Absent)),
   ScalarPayload}

UpstreamErrors == {404, 500, 503}

StationAnswers ==
  {StationAnswer("ok", 200, p) : p \in FlowPayloads}
    \cup {StationAnswer("non200", s, ScalarPayload) : s \in UpstreamErrors}
    \cup {StationAnswer(k, 0, ScalarPayload) : k \in {"connect", "timeout", "exc"}}

Dates == {"", "2024-01-01"}

(***************************************************************************)
(* Requests.  req[r] is the state of the handler serving request r: its    *)
(* position pc, its parameters and locals, the outbound calls it has made  *)
(* (calls: which call, for which model, and whether the call itself        *)
(* succeeded), and its response (status, with the response fields in       *)
(* chart_id, filename, description, summary, out_station_data, body).      *)
(* summary_raw is what the lay-summary call returned and upstream how the  *)
(* station API answered.  files is the upload directory: the bytes stored  *)
(* under each name.                                                        *)
(***************************************************************************)
NoFile == "absent"

IdleReq ==
  [kind |-> "none", pc |-> "idle", ensuring |-> "none",
   content_type |-> [isnone |-> TRUE, s |-> <<>>],
   model_mode |-> "", language |-> "",
   vision_model |-> <<>>, text_model |-> <<>>,
   stat_code |-> <<>>, start_date |-> "", end_date |-> "",
   chart_id |-> 0, filename |-> <<0, <<>>>>, content |-> NoFile,
   description |-> <<>>, summary_raw |-> <<>>, summary |-> <<>>,
   upstream |-> "none",
   station_data |-> ScalarPayload, data_summary |-> Raised,
   out_station_data |-> ScalarPayload, body |-> ScalarPayload,
   calls |-> <<>>, status |-> 0]

Call(site, for, ok) == [site |-> site, for |-> for, ok |-> ok]

\* raise HTTPException(status) / an unhandled exception (status 500)
Fail(q, status) == [q EXCEPT !.pc = "done", !.status = status]

FlowInit ==
  /\ req = [r \in Reqs |-> IdleReq]
  /\ files = [n \in StoredNames |-> NoFile]
  /\ served = [filename |-> <<0, <<>>>>, status |-> 0, bytes |-> NoFile]
  /\ avail = IdleAvail
  /\ summ = IdleSumm

(***************************************************************************)
(* ensure_model_pulled, called by both analysis handlers.                  *)
(***************************************************************************)
EnsuredModel(q) == IF q.ensuring = "vision" THEN q.vision_model ELSE q.text_model

\* what the handler does with the result of ensure_model_pulled
\* (lines 292-299 of analyze_chart, 554-559 of analyze_station_data)
AfterEnsureBestEffort(q, ready) ==
  CASE q.kind = "chart" /\ q.ensuring = "vision" ->
         IF ready THEN [q EXCEPT !.pc = "ensure", !.ensuring = "text"]
         ELSE Fail(q, 503)
    [] q.kind = "chart" /\ q.ensuring = "text" -> [q EXCEPT !.pc = "save"]
    [] OTHER -> [q EXCEPT !.pc = "fetch"]

AfterEnsureTextRequired(q, ready) ==
  IF ready
  THEN CASE q.kind = "chart" /\ q.ensuring = "vision" ->
              [q EXCEPT !.pc = "ensure", !.ensuring = "text"]
         [] q.kind = "chart" /\ q.ensuring = "text" -> [q EXCEPT !.pc = "save"]
         [] OTHER -> [q EXCEPT !.pc = "fetch"]
  ELSE Fail(q, 503)

AfterEnsure(q, ready) ==
  CASE q.kind = "chart" /\ q.ensuring = "vision" ->
         IF ready THEN [q EXCEPT !.pc = "ensure", !.ensuring = "text"]
         ELSE Fail(q, 503)
    [] q.kind = "chart" /\ q.ensuring = "text" -> [q EXCEPT !.pc = "save"]
    [] OTHER ->
         IF ready THEN [q EXCEPT !.pc = "fetch"]
         ELSE Fail(q, 503)

\* line 129: the listing is asked for; a listed model needs no pull
EnsureTags(r, resp) ==
  /\ req[r].pc = "ensure"
  /\ LET q == [req[r] EXCEPT
                 !.calls = Append(@, Call("tags", req[r].ensuring, resp.kind = "ok"))]
     IN  req' = [req EXCEPT ![r] =
                   IF check_ollama_model(EnsuredModel(q), resp)
                   THEN AfterEnsure(q, TRUE)
                   ELSE [q EXCEPT !.pc = "pull"]]
  /\ UNCHANGED <<files, served, avail, summ>>

\* lines 131-145: one pull request; its success is the result
EnsurePull(r, resp) ==
  /\ req[r].pc = "pull"
  /\ LET q == [req[r] EXCEPT
                 !.calls = Append(@, Call("pull", req[r].ensuring, resp = "ok"))]
     IN  req' = [req EXCEPT ![r] = AfterEnsure(q, resp = "ok")]
  /\ UNCHANGED <<files, served, avail, summ>>

(***************************************************************************)
(* POST /api/analyze                                                       *)
(***************************************************************************)
\* `not file.content_type or not file.content_type.startswith("image/")`
NotAnImageBySubstring(content_type) ==
  \/ content_type.isnone
  \/ content_type.s = <<>>
  \/ ~Contains(ImagePrefix, content_type.s)

NotAnImage(content_type) ==
  \/ content_type.isnone
  \/ content_type.s = <<>>
  \/ ~StartsWith(content_type.s, ImagePrefix)

\* lines 283-289: resolve the mode, validate the content type
AnalyzeChart(r, content_type, model_mode, language) ==
  /\ req[r].pc = "idle"
  /\ LET mode == ResolveMode(model_mode)
         q == [req[r] EXCEPT !.kind = "chart", !.content_type = content_type,
                             !.model_mode = model_mode,
                             !.language = language,
                             !.vision_model = mode.vision_model,
                             !.text_model = mode.text_model]
     IN  req' = [req EXCEPT ![r] =
                   IF NotAnImage(content_type) THEN Fail(q, 400)
                   ELSE [q EXCEPT !.pc = "ensure", !.ensuring = "vision"]]
  /\ UNCHANGED <<files, served, avail, summ>>

\* lines 301-312: a fresh id, the stored name, the bytes written
SaveUpload(r, chart_id, filename, content) ==
  /\ req[r].pc = "save"
  /\ LET name == StoredName(chart_id, UploadExt(filename))
     IN  /\ req' = [req EXCEPT ![r] = [@ EXCEPT !.pc = "vision", !.chart_id = chart_id,
                                                 !.filename = name, !.content = content]]
         /\ files' = [files EXCEPT ![name] = content]
  /\ UNCHANGED <<served, avail, summ>>

\* line 352: description.startswith("Error:")
VisionFailedExact(description) == description = ErrorMarker

VisionFailed(description) == StartsWith(description, ErrorMarker)

\* lines 350-353: vision inference; an error-marked result ends the request
VisionInference(r, resp) ==
  /\ req[r].pc = "vision"
  /\ LET description == query_ollama_vision(resp)
         q == [req[r] EXCEPT !.description = description,
                             !.calls = Append(@, Call("vision", "vision", resp.kind = "ok"))]
     IN  req' = [req EXCEPT ![r] =
                   IF VisionFailed(description) THEN Fail(q, 503)
                   ELSE [q EXCEPT !.pc = "summary"]]
  /\ UNCHANGED <<files, served, avail, summ>>

\* line 380: summary.startswith("Error:")
ChartSummaryFailedExact(summary) == summary = ErrorMarker

ChartSummaryFailed(summary) == StartsWith(summary, ErrorMarker)

\* line 382
ChartFallbackNoEllipsis(description) == Take(description, TruncLen)

ChartFallbackSummary(description) ==
  IF Len(description) > TruncLen THEN Take(description, TruncLen) \o Ellipsis
  ELSE description

\* lines 378-402: the lay summary, its fallback, the response
ChartSummary(r, resp) ==
  /\ req[r].pc = "summary" /\ req[r].kind = "chart"
  /\ LET summary == query_ollama_text(resp)
     IN  req' = [req EXCEPT ![r] =
                   [@ EXCEPT !.summary_raw = summary,
                             !.summary = IF ChartSummaryFailed(summary)
                                         THEN ChartFallbackSummary(req[r].description)
                                         ELSE summary,
                             !.calls = Append(@, Call("summary", "text", resp.kind = "ok")),
                             !.pc = "done", !.status = 200]]
  /\ UNCHANGED <<files, served, avail, summ>>

\* GET /api/charts/{filename}
GetChart(filename) ==
  /\ served' = IF files[filename] = NoFile
               THEN [filename |-> filename, status |-> 404, bytes |-> NoFile]
               ELSE [filename |-> filename, status |-> 200, bytes |-> files[filename]]
  /\ UNCHANGED <<req, files, avail, summ>>

(***************************************************************************)
(* GET /api/station/data                                                   *)
(***************************************************************************)
StationDataStatus(resp) ==
  CASE resp.kind = "ok" -> 200
    [] resp.kind = "non200" -> resp.status
    [] resp.kind = "connect" -> 502
    [] resp.kind = "timeout" -> 504
    [] OTHER -> 500

\* lines 512-537: the whole handler, one outbound call
GetStationData(r, stat_code, resp) ==
  /\ req[r].pc = "idle"
  /\ req' = [req EXCEPT ![r] =
               [@ EXCEPT !.kind = "data", !.stat_code = stat_code,
                         !.upstream = resp.kind,
                         !.calls = Append(@, Call("station", "none", resp.kind = "ok")),
                         !.body = IF resp.kind = "ok" THEN resp.json ELSE @,
                         !.pc = "done", !.status = StationDataStatus(resp)]]
  /\ UNCHANGED <<files, served, avail, summ>>

(***************************************************************************)
(* POST /api/station/analyze                                               *)
(***************************************************************************)
\* lines 549-554: resolve the mode to its text model
AnalyzeStation(r, stat_code, start_date, end_date, language, model_mode) ==
  /\ req[r].pc = "idle"
  /\ req' = [req EXCEPT ![r] =
               [@ EXCEPT !.kind = "station", !.stat_code = stat_code,
                         !.start_date = start_date, !.end_date = end_date,
                         !.language = language, !.model_mode = model_mode,
                         !.text_model = ResolveMode(model_mode).text_model,
                         !.pc = "ensure", !.ensuring = "text"]]
  /\ UNCHANGED <<files, served, avail, summ>>

\* the except clauses of lines 574-586
StationFetchStatusTimeoutUncaught(resp) ==
  CASE resp.kind = "non200" -> 502
    [] resp.kind = "connect" -> 502
    [] OTHER -> 500

StationFetchStatus(resp) ==
  CASE resp.kind = "non200" -> 502
    [] resp.kind = "connect" -> 502
    [] resp.kind = "timeout" -> 504
    [] OTHER -> 500

\* lines 561-589: fetch the station data and summarize it
FetchStation(r, resp) ==
  /\ req[r].pc = "fetch"
  /\ LET q == [req[r] EXCEPT
                 !.upstream = resp.kind,
                 !.calls = Append(@, Call("station", "none", resp.kind = "ok"))]
         data_summary == _summarize_station_data(resp.json, q.stat_code)
     IN  req' = [req EXCEPT ![r] =
                   IF resp.kind # "ok" THEN Fail(q, StationFetchStatus(resp))
                   ELSE IF data_summary.raised
                        THEN Fail([q EXCEPT !.station_data = resp.json], 500)
                   ELSE [q EXCEPT !.station_data = resp.json,
                                  !.data_summary = data_summary,
                                  !.pc = "analysis"]]
  /\ UNCHANGED <<files, served, avail, summ>>

\* line 621: description.startswith("Error:")
AnalysisFailed(description) == StartsWith(description, ErrorMarker)

\* lines 619-622: the technical analysis; an error-marked result ends the request
TextAnalysis(r, resp) ==
  /\ req[r].pc = "analysis"
  /\ LET description == query_ollama_text(resp)
         q == [req[r] EXCEPT !.description = description,
                             !.calls = Append(@, Call("analysis", "text", resp.kind = "ok"))]
     IN  req' = [req EXCEPT ![r] =
                   IF AnalysisFailed(description) THEN Fail(q, 503)
                   ELSE [q EXCEPT !.pc = "summary"]]
  /\ UNCHANGED <<files, served, avail, summ>>

\* line 646: summary.startswith("Error:")
StationSummaryFailed(summary) == StartsWith(summary, ErrorMarker)

\* line 647
StationFallbackNoEllipsis(description) == Take(description, TruncLen)

StationFallbackSummary(description) ==
  IF Len(description) > TruncLen THEN Take(description, TruncLen) \o Ellipsis
  ELSE description

\* line 664: the station payload of the response
StationDataUnderDataKey(station_data) ==
  IF station_data.shape = "dict" THEN station_data
  ELSE DictPayload([k \in {"data"} |-> ListValue(station_data.items)])

ResponseStationData(station_data) ==
  IF station_data.shape = "dict" THEN station_data
  ELSE DictPayload([k \in {"records"} |-> ListValue(station_data.items)])

\* lines 644-666: the lay summary, its fallback, the response
StationSummary(r, resp) ==
  /\ req[r].pc = "summary" /\ req[r].kind = "station"
  /\ LET summary == query_ollama_text(resp)
     IN  req' = [req EXCEPT ![r] =
                   [@ EXCEPT !.summary_raw = summary,
                             !.summary = IF StationSummaryFailed(summary)
                                         THEN StationFallbackSummary(req[r].description)
                                         ELSE summary,
                             !.calls = Append(@, Call("summary", "text", resp.kind = "ok")),
                             !.out_station_data = ResponseStationData(req[r].station_data),
                             !.pc = "done", !.status = 200]]
  /\ UNCHANGED <<files, served, avail, summ>>

(***************************************************************************)
(* Specifications.                                                         *)
(* Spec: one request of an endpoint that calls out, with every answer the  *)
(* collaborators can give.  SpecUploads: chart uploads handled             *)
(* concurrently against a model service that answers, and the charts       *)
(* fetched back.  SpecAvail and SpecSumm: the availability check and the   *)
(* summarizer over all inputs within the bounds.                           *)
(***************************************************************************)
Next ==
  \E r \in {1} :
    \/ \E ct \in ContentTypes, m \in ModeInputs, l \in Languages : AnalyzeChart(r, ct, m, l)
    \/ \E resp \in FlowTagsAnswers : EnsureTags(r, resp)
    \/ \E resp \in PullAnswers : EnsurePull(r, resp)
    \/ \E i \in ChartIds, n \in UploadNames, c \in Contents : SaveUpload(r, i, n, c)
    \/ \E resp \in GenAnswers : VisionInference(r, resp)
    \/ \E resp \in GenAnswers : ChartSummary(r, resp)
    \/ \E c \in StatCodes, resp \in StationAnswers : GetStationData(r, c, resp)
    \/ \E c \in StatCodes, s \in Dates, e \in Dates, l \in Languages, m \in ModeInputs :
         AnalyzeStation(r, c, s, e, l, m)
    \/ \E resp \in StationAnswers : FetchStation(r, resp)
    \/ \E resp \in GenAnswers : TextAnalysis(r, resp)
    \/ \E resp \in GenAnswers : StationSummary(r, resp)

Spec == FlowInit /\ [][Next]_vars

UploadTags == [kind |-> "ok", models |-> {MoondreamLatest, Llama1b}]

NextUploads ==
  \/ \E r \in Reqs : AnalyzeChart(r, Some(ImagePng), "moondream", "en")
  \/ \E r \in Reqs : EnsureTags(r, UploadTags)
  \/ \E r \in Reqs, i \in ChartIds, c \in Contents : SaveUpload(r, i, Some(<<"a">>), c)
  \/ \E r \in Reqs : VisionInference(r, GenAnswer("ok", TRUE, ShortText, 200))
  \/ \E r \in Reqs : ChartSummary(r, GenAnswer("ok", TRUE, ShortText, 200))
  \/ \E n \in StoredNames : GetChart(n)

SpecUploads == FlowInit /\ [][NextUploads]_vars

AvailStart ==
  /\ AvailInit
  /\ req = [r \in Reqs |-> IdleReq]
  /\ files = [n \in StoredNames |-> NoFile]
  /\ served = [filename |-> <<0, <<>>>>, status |-> 0, bytes |-> NoFile]
  /\ summ = IdleSumm

SpecAvail == AvailStart /\ [][AvailCheck]_vars

SummStart ==
  /\ SummInit
  /\ req = [r \in Reqs |-> IdleReq]
  /\ files = [n \in StoredNames |-> NoFile]
  /\ served = [filename |-> <<0, <<>>>>, status |-> 0, bytes |-> NoFile]
  /\ avail = IdleAvail

SpecSumm == SummStart /\ [][Summarize]_vars

(***************************************************************************)
(* Properties.                                                             *)
(***************************************************************************)
HasCall(q, site) == \E i \in 1..Len(q.calls) : q.calls[i].site = site

HasColon(s) == \E i \in 1..Len(s) : s[i] = ":"

\* C1: in POST /api/analyze, once the vision inference call has returned a
\* string beginning with "Error:", the request has ended with HTTP 503 and no
\* lay-summary call has been issued for it.
C1_VisionErrorEndsWith503 ==
  \A r \in Reqs :
    LET q == req[r]
    IN  (q.kind = "chart" /\ HasCall(q, "vision")
           /\ Len(q.description) >= 6 /\ SubSeq(q.description, 1, 6) = ErrorMarker)
          => (q.pc = "done" /\ q.status = 503 /\ ~HasCall(q, "summary"))

C1_Witness ==
  \E r \in Reqs :
    /\ req[r].kind = "chart" /\ HasCall(req[r], "vision")
    /\ StartsWith(req[r].description, ErrorMarker)
    /\ req[r].pc = "done" /\ req[r].status = 503

\* C2: in POST /api/analyze, an upload whose content type is missing or does
\* not start with "image/" is answered with HTTP 400, with no outbound call
\* made (listing, pull, vision or text inference) and no file written.
C2_NonImageRejectedFirst ==
  \A r \in Reqs :
    LET q == req[r]
    IN  (q.kind = "chart"
           /\ (q.content_type.isnone \/ ~StartsWith(q.content_type.s, ImagePrefix)))
          => /\ q.pc = "done" /\ q.status = 400
             /\ q.calls = <<>>
             /\ q.content = NoFile
             /\ \A n \in StoredNames : files[n] = NoFile

C2_Witness ==
  \E r \in Reqs :
    /\ req[r].kind = "chart" /\ req[r].status = 400
    /\ ~req[r].content_type.isnone
    /\ ~StartsWith(req[r].content_type.s, ImagePrefix)
    /\ Contains(ImagePrefix, req[r].content_type.s)

\* p is the part of name before its first colon (all of name without one)
IsPreColonPrefix(p, name) ==
  \E k \in 0..Len(name) :
    /\ p = SubSeq(name, 1, k)
    /\ \A i \in 1..k : name[i] # ":"
    /\ k = Len(name) \/ name[k + 1] = ":"

\* p occurs in m as a run of consecutive characters
OccursIn(p, m) ==
  \E start \in 0..Len(m) :
    /\ start + Len(p) <= Len(m)
    /\ \A j \in 1..Len(p) : m[start + j] = p[j]

PrefixListed(name, models) ==
  \E m \in models : \E k \in 0..Len(name) :
    IsPreColonPrefix(SubSeq(name, 1, k), name) /\ OccursIn(SubSeq(name, 1, k), m)

\* C3 (as stated): for every listing returned, a name without a colon is
\* available only when it is exactly an entry of the listing, and a
\* colon-qualified name is available when it is exactly listed or some entry
\* contains its pre-colon prefix.
C3_BareNameExactOnly ==
  (avail.done /\ avail.resp.kind = "ok")
    => /\ (~HasColon(avail.name) /\ avail.result) => avail.name \in avail.resp.models
       /\ (HasColon(avail.name)
             /\ (avail.name \in avail.resp.models
                   \/ PrefixListed(avail.name, avail.resp.models)))
            => avail.result

\* C3 (amended): for every listing returned and every name, with a colon or
\* without, the check is true exactly when some listed entry contains the
\* name's pre-colon prefix (the whole name when it has no colon); an exactly
\* listed name is therefore available.
C3_PrefixContainment ==
  (avail.done /\ avail.resp.kind = "ok")
    => /\ avail.result <=> PrefixListed(avail.name, avail.resp.models)
       /\ avail.name \in avail.resp.models => avail.result

C3_Witness ==
  /\ avail.done /\ avail.resp.kind = "ok"
  /\ ~HasColon(avail.name)
  /\ avail.name \notin avail.resp.models
  /\ avail.result

\* C4: GET /api/station/data answers a connect failure or an upstream
\* response of any non-200 status with HTTP 502, and a timeout with HTTP 504.
C4_DataErrorsMapped ==
  \A r \in Reqs :
    LET q == req[r]
    IN  (q.kind = "data" /\ q.pc = "done")
          => /\ q.upstream \in {"connect", "non200"} => q.status = 502
             /\ q.upstream = "timeout" => q.status = 504

\* C5: in POST /api/station/analyze, a station-API timeout yields HTTP 504
\* and a connect failure HTTP 502, and in both cases no text-inference call
\* (technical analysis or lay summary) is issued for the request.
C5_StationFetchFailure ==
  \A r \in Reqs :
    LET q == req[r]
    IN  (q.kind = "station" /\ q.upstream \in {"timeout", "connect"})
          => /\ q.pc = "done"
             /\ q.upstream = "timeout" => q.status = 504
             /\ q.upstream = "connect" => q.status = 502
             /\ ~HasCall(q, "analysis") /\ ~HasCall(q, "summary") /\ ~HasCall(q, "vision")

C5_Witness ==
  \E r \in Reqs :
    /\ req[r].kind = "station" /\ req[r].upstream = "timeout"
    /\ req[r].status = 504 /\ HasCall(req[r], "station")

\* C6: in both analysis flows, when the first stage succeeded and the
\* lay-summary call returned an error-marked string, the request succeeds and
\* its summary is the first 300 characters of the description followed by
\* "..." if the description is longer than 300 characters, and the full
\* description otherwise.
C6_FallbackSummary ==
  \A r \in Reqs :
    LET q == req[r]
        d == q.description
        s == q.summary
    IN  (q.kind \in {"chart", "station"} /\ HasCall(q, "summary")
           /\ StartsWith(q.summary_raw, ErrorMarker))
          => /\ q.pc = "done" /\ q.status = 200
             /\ IF Len(d) > TruncLen
                THEN /\ Len(s) = TruncLen + 3
                     /\ \A i \in 1..TruncLen : s[i] = d[i]
                     /\ \A i \in (TruncLen + 1)..(TruncLen + 3) : s[i] = "."
                ELSE s = d

C6_Witness ==
  \E r \in Reqs :
    /\ req[r].kind = "chart" /\ HasCall(req[r], "summary")
    /\ StartsWith(req[r].summary_raw, ErrorMarker)
    /\ Len(req[r].description) > TruncLen
    /\ req[r].status = 200

Saved(q) == q.kind = "chart" /\ q.content # NoFile

\* C7: across concurrently handled chart uploads the upload directory is
\* append-only: no two requests write the same path, and the file under a
\* request's chart_url holds the bytes that request uploaded.
C7_UploadsNeverCollide ==
  \A r1 \in Reqs :
    Saved(req[r1])
      => /\ files[req[r1].filename] = req[r1].content
         /\ \A r2 \in Reqs \ {r1} : Saved(req[r2]) => req[r2].filename # req[r1].filename

NoRetry(q) ==
  \A i, j \in 1..Len(q.calls) :
    (i # j) => ~(q.calls[i].site = q.calls[j].site /\ q.calls[i].for = q.calls[j].for)

\* C8 (as stated): in every request of either analysis flow no outbound call
\* is retried, and a failed outbound call is the request's last call and ends
\* it with a failure response, except a failed lay-summary call, which ends it
\* with a successful response.
C8_FailedCallEndsRequest ==
  \A r \in Reqs :
    LET q == req[r]
        n == Len(q.calls)
    IN  q.kind \in {"chart", "station"}
          => /\ NoRetry(q)
             /\ \A i \in 1..n :
                  ~q.calls[i].ok
                    => /\ i = n /\ q.pc = "done"
                       /\ IF q.calls[i].site = "summary" THEN q.status = 200
                          ELSE q.status # 200

\* C8 (amended): no outbound call is retried.  A failed station fetch, vision
\* inference or technical analysis, a failed pull of the vision model in the
\* chart flow and a failed pull of the text model in the station flow each end
\* the request at once with a failure response; a failed lay-summary call ends
\* it with a successful response; a failed model listing is followed by one
\* pull of that model; a failed pull of the text model in the chart flow is
\* followed by the rest of the pipeline.
C8_FailedCallOutcomes ==
  \A r \in Reqs :
    LET q == req[r]
        n == Len(q.calls)
        c(i) == q.calls[i]
        endsWith(i, statuses) == i = n /\ q.pc = "done" /\ q.status \in statuses
    IN  q.kind \in {"chart", "station"}
          => /\ NoRetry(q)
             /\ \A i \in 1..n :
                  ~c(i).ok
                    => CASE c(i).site = "tags" ->
                              IF i = n THEN q.pc = "pull" /\ q.ensuring = c(i).for
                              ELSE c(i + 1).site = "pull" /\ c(i + 1).for = c(i).for
                         [] c(i).site = "pull" /\ q.kind = "chart" /\ c(i).for = "text" ->
                              IF i = n THEN q.pc \in {"save", "vision"} ELSE c(i + 1).site = "vision"
                         [] c(i).site = "pull" -> endsWith(i, {503})
                         [] c(i).site = "station" -> endsWith(i, {500, 502, 504})
                         [] c(i).site = "summary" -> endsWith(i, {200})
                         [] OTHER -> endsWith(i, {503})

C8_Witness ==
  \E r \in Reqs :
    LET q == req[r]
    IN  /\ q.kind = "chart" /\ q.pc = "done" /\ q.status = 200
        /\ \E i \in 1..Len(q.calls) : q.calls[i].site = "tags" /\ ~q.calls[i].ok
        /\ \E i \in 1..Len(q.calls) :
             q.calls[i].site = "pull" /\ q.calls[i].for = "text" /\ ~q.calls[i].ok
        /\ \E i \in 1..Len(q.calls) : q.calls[i].site = "summary" /\ ~q.calls[i].ok

\* C9 (as stated): a successful POST /api/station/analyze response embeds
\* the payload returned by the station API unmodified in station_data, be it a
\* plain list of records or a wrapper object.
C9_PayloadUnmodified ==
  \A r \in Reqs :
    LET q == req[r]
    IN  (q.kind = "station" /\ q.pc = "done" /\ q.status = 200)
          => /\ q.out_station_data.shape = q.station_data.shape
             /\ q.out_station_data.items = q.station_data.items
             /\ q.out_station_data.obj = q.station_data.obj

\* C9 (amended): a successful POST /api/station/analyze response embeds a
\* wrapper object returned by the station API unmodified in station_data, and
\* embeds a plain list of records as the value of the single key "records" of
\* a new object, the list itself unmodified.
C9_PayloadEmbedded ==
  \A r \in Reqs :
    LET q == req[r]
        out == q.out_station_data
    IN  (q.kind = "station" /\ q.pc = "done" /\ q.status = 200)
          => /\ out.shape = "dict"
             /\ q.station_data.shape = "dict" => out.obj = q.station_data.obj
             /\ q.station_data.shape = "list"
                  => /\ DOMAIN out.obj = {"records"}
                     /\ out.obj["records"].t = "list"
                     /\ out.obj["records"].items = q.station_data.items

C9_Witness ==
  \E r \in Reqs :
    /\ req[r].kind = "station" /\ req[r].pc = "done" /\ req[r].status = 200
    /\ req[r].station_data.shape = "list"
    /\ Len(req[r].station_data.items) = 2

\* the payload is an empty list, or a wrapper object in which neither
\* "records" nor "data" holds anything but an empty list
NothingToSummarize(data) ==
  \/ data.shape = "list" /\ data.items = <<>>
  \/ /\ data.shape = "dict"
     /\ \A k \in {"records", "data"} \cap DOMAIN data.obj :
          data.obj[k].t = "list" /\ data.obj[k].items = <<>>

\* C10: for every station code and every plain list or wrapper object,
\* _summarize_station_data does not raise and returns exactly
\* "Station: <code>\nNo data records found." when the record list is empty or
\* neither the "records" nor the "data" key is present.
C10_NoDataNotice ==
  (summ.done /\ NothingToSummarize(summ.data))
    => /\ ~summ.out.raised
       /\ summ.out.lines
            = <<<<Lit(StationPrefix), Lit(summ.code)>>, <<Lit(NoDataText)>>>>

C10_Witness ==
  /\ summ.done
  /\ summ.data.shape = "dict"
  /\ DOMAIN summ.data.obj = {"station"}
  /\ ~summ.out.raised
  /\ Len(summ.out.lines) = 2

\* the positions of the records whose value for key is numeric: a JSON number
\* or a string that reads as a number; a missing field, null, a boolean and
\* any other string are not
NumericAt(records, key) ==
  {i \in 1..Len(records) :
     /\ HasKey(records[i], key)
     /\ records[i].f[key].t \in {"num", "numstr"}}

\* the total_change figures the summary prints for key
TotalChangesOf(lines, key) ==
  {lines[i][9].v : i \in {j \in 1..Len(lines) :
                            /\ Len(lines[j]) = 9
                            /\ lines[j][1] = Lit(LANDMOS_FIELD_LABELS[key])
                            /\ lines[j][8] = Lit(TotalChangeText)}}

StatKeys == {"de", "dn", "dh", "sde", "sdn", "sdh", "pdop", "no_satellite"}

\* C11: for each statistics field of a returned summary, total_change is the
\* last numeric value minus the first numeric value of that field, taken in
\* record order over only the records whose value for the field is numeric,
\* whatever the same records hold in their other fields.
C11_TotalChangeOverNumeric ==
  (summ.done /\ ~summ.out.raised)
    => \A key \in StatKeys :
         LET records == RecordsOf(summ.data)
             at == NumericAt(records, key)
             firstAt == CHOOSE i \in at : \A j \in at : i <= j
             lastAt == CHOOSE i \in at : \A j \in at : i >= j
         IN  at # {}
               => TotalChangesOf(summ.out.lines, key)
                    = {records[lastAt].f[key].v - records[firstAt].f[key].v}

\* ensure_model_pulled has returned False for the model: the pull that follows
\* a listing without the model has failed
NotMadeAvailable(q, model) ==
  \E i \in 1..Len(q.calls) : q.calls[i] = Call("pull", model, FALSE)

\* C12: in POST /api/analyze, a vision model that is neither listed nor pulled
\* ends the request with HTTP 503 with no file written and no inference call
\* made; a text model that is neither listed nor pulled does not end the
\* request: the file is stored next, then the vision inference runs, and the
\* request fails only if that inference does.
C12_VisionRequiredTextBestEffort ==
  \A r \in Reqs :
    LET q == req[r]
    IN  q.kind = "chart"
          => /\ NotMadeAvailable(q, "vision")
                  => /\ q.pc = "done" /\ q.status = 503
                     /\ q.content = NoFile
                     /\ \A n \in StoredNames : files[n] = NoFile
                     /\ ~HasCall(q, "vision") /\ ~HasCall(q, "summary")
             /\ NotMadeAvailable(q, "text")
                  => /\ q.pc \in {"save", "vision", "summary", "done"}
                     /\ q.pc # "save"
                          => q.content # NoFile /\ files[q.filename] = q.content
                     /\ q.pc \in {"summary", "done"} => HasCall(q, "vision")
                     /\ q.pc = "done"
                          => \/ q.status = 200
                             \/ q.status = 503 /\ VisionFailed(q.description)

C12_Witness ==
  \E r \in Reqs :
    /\ req[r].kind = "chart"
    /\ NotMadeAvailable(req[r], "text")
    /\ req[r].pc = "done" /\ req[r].status = 200
    /\ files[req[r].filename] = req[r].content
    /\ HasCall(req[r], "vision")

\* the text begins with "Error:"
ErrorMarked(text) ==
  /\ Len(text) >= 6
  /\ SubSeq(text, 1, 6) = <<"E", "r", "r", "o", "r", ":">>

\* C13: in every HTTP 200 response of POST /api/analyze and of
\* POST /api/station/analyze neither the description nor the summary begins
\* with "Error:", whatever the model service answered and whether the summary
\* is the model's text or the fallback cut from the description.
C13_NoErrorMarkerInSuccess ==
  \A r \in Reqs :
    (req[r].kind \in {"chart", "station"} /\ req[r].pc = "done" /\ req[r].status = 200)
      => /\ ~ErrorMarked(req[r].description)
         /\ ~ErrorMarked(req[r].summary)

C13_Witness ==
  \E r \in Reqs :
    /\ req[r].kind = "station" /\ req[r].pc = "done" /\ req[r].status = 200
    /\ req[r].summary_raw = MarkedText
    /\ req[r].summary = req[r].description
    /\ \E i \in 1..Len(req[r].calls) : req[r].calls[i] = Call("summary", "text", TRUE)

====
